---- MODULE Spec2Model ----
(***************************************************************************)
(* Subscription vault: per-subscription prepaid balances, interval and     *)
(* usage charges with replay / idempotency protection, the batch wrapper,  *)
(* the status state machine, the lifecycle operations and the admin        *)
(* configuration.                                                          *)
(*                                                                         *)
(* Every operation of the contract is a pure operator over the stored      *)
(* state that returns the result of the call together with the state it    *)
(* leaves (an error or a trap leaves the state given), and an action that  *)
(* applies it.  An Option<T> of the source is a sequence of length <= 1.   *)
(***************************************************************************)
EXTENDS Integers, Sequences, FiniteSets, TLC

(* ------------------------------ bounds ------------------------------- *)

\* The ledger clock runs over 0 .. MaxTime.
MaxTime == 4
\* Stand-in for i128::MAX: balances live in -(MaxI128 + 1) .. MaxI128.
MaxI128 == 2
\* batch_charge is called with at most MaxBatch ids.
MaxBatch == 2
\* Stand-in for u64::MAX: timestamps and intervals live in 0 .. MaxU64.
MaxU64 == 9
\* Stand-in for u32::MAX: page offsets and limits live in 0 .. MaxU32.
MaxU32 == 3

(* ------------------------------ inputs ------------------------------- *)

None == << >>
Some(x) == << x >>

Subscribers == {"s1"}
Merchants == {"m1", "m2"}
Admins == {"a1", "a2"}
Addresses == Subscribers \cup Merchants \cup Admins
Tokens == {"usdc"}
IdemKeys == {"k1", "k2"}
OptKeys == {None} \cup {Some(k) : k \in IdemKeys}

\* The arguments create_subscription is called with: a usage-metered plan, a
\* plain plan, a plan with a negative amount and a plan with a zero interval
\* (create_subscription validates none of them).
CreateArgs ==
    { [subscriber |-> "s1", merchant |-> "m1", amount |-> 2, interval_seconds |-> 2, usage_enabled |-> TRUE],
      [subscriber |-> "s1", merchant |-> "m2", amount |-> 2, interval_seconds |-> 2, usage_enabled |-> FALSE],
      [subscriber |-> "s1", merchant |-> "m2", amount |-> -1, interval_seconds |-> 2, usage_enabled |-> FALSE],
      [subscriber |-> "s1", merchant |-> "m1", amount |-> 1, interval_seconds |-> 0, usage_enabled |-> TRUE] }
DepositAmounts == {-1, 2}
UsageAmounts == {0, 1, 2}
MinTopups == {-1, 1}
RecoveryAmounts == {-1, 0, 1}
\* The ids the calls of Spec are made with: Spec creates one subscription, so
\* id 0 comes to exist and id 1 never does.
SubIds == {0, 1}
\* The ids the calls of SpecPair are made with: SpecPair creates two
\* subscriptions, ids 0 and 1, and id 2 never exists.
PairIds == {0, 1, 2}

I128_MAX == MaxI128
I128_MIN == -MaxI128 - 1
U64_MAX == MaxU64
U32_MAX == MaxU32

(* ------------------------------- state ------------------------------- *)

VARIABLES
    now,            \* env.ledger().timestamp()
    token,          \* instance storage "token": Option<Address>
    admin,          \* instance storage "admin": Option<Address>
    min_topup,      \* instance storage "min_topup": Option<i128>
    next_id,        \* instance storage "next_id" (absent = 0)
    subs,           \* instance storage id -> Subscription
    cp,             \* instance storage ("cp", id) -> Option<u64>
    idem,           \* instance storage ("idem", id) -> Option<BytesN<32>>
    merchant_subs,  \* instance storage MerchantSubs(merchant) -> Vec<u32>
    created_at,     \* history: the time each subscription was created
    debit_log,      \* history: the times of each subscription's interval debits
    rotated_out     \* history: the principals rotated out of the admin role and not rotated back in

vars == << now, token, admin, min_topup, next_id, subs, cp, idem,
           merchant_subs, created_at, debit_log, rotated_out >>

\* The part of the storage the charge engine reads and writes.
Store == [subs |-> subs, cp |-> cp, idem |-> idem]

(* --------------------------- types.rs -------------------------------- *)

SubscriptionStatus == {"Active", "Paused", "Cancelled", "InsufficientBalance"}

Error ==
    {"NotFound", "Unauthorized", "IntervalNotElapsed", "NotActive",
     "InvalidStatusTransition", "BelowMinimumTopup", "Overflow", "Underflow",
     "InsufficientBalance", "UsageNotEnabled", "InsufficientPrepaidBalance",
     "InvalidAmount", "Replay", "InvalidRecoveryAmount"}

to_code(e) ==
    CASE e = "NotFound" -> 404
      [] e = "Unauthorized" -> 401
      [] e = "IntervalNotElapsed" -> 1001
      [] e = "NotActive" -> 1002
      [] e = "InvalidStatusTransition" -> 400
      [] e = "BelowMinimumTopup" -> 402
      [] e = "Overflow" -> 403
      [] e = "Underflow" -> 1004
      [] e = "InsufficientBalance" -> 1003
      [] e = "UsageNotEnabled" -> 1009
      [] e = "InsufficientPrepaidBalance" -> 1010
      [] e = "InvalidAmount" -> 1006
      [] e = "Replay" -> 1007
      [] e = "InvalidRecoveryAmount" -> 1008

(* ------------------------ state_machine.rs --------------------------- *)

\* validate_status_transition with Cancelled given the edges of Paused.
validate_status_transition_reopen(from, to) ==
    IF from = to THEN TRUE
    ELSE CASE from = "Active" -> to \in {"Paused", "Cancelled", "InsufficientBalance"}
           [] from = "Paused" -> to \in {"Active", "Cancelled"}
           [] from = "Cancelled" -> to \in {"Active", "Cancelled"}
           [] from = "InsufficientBalance" -> to \in {"Active", "Cancelled"}

\* validate_status_transition with InsufficientBalance given the edges of Active.
validate_status_transition_ib_as_active(from, to) ==
    IF from = to THEN TRUE
    ELSE CASE from = "Active" -> to \in {"Paused", "Cancelled", "InsufficientBalance"}
           [] from = "Paused" -> to \in {"Active", "Cancelled"}
           [] from = "Cancelled" -> FALSE
           [] from = "InsufficientBalance" -> to \in {"Paused", "Cancelled", "Active"}

\* validate_status_transition without the from == to shortcut: a
\* self-transition is judged by the table like any other move.
validate_status_transition_no_self(from, to) ==
    CASE from = "Active" -> to \in {"Paused", "Cancelled", "InsufficientBalance"}
      [] from = "Paused" -> to \in {"Active", "Cancelled"}
      [] from = "Cancelled" -> FALSE
      [] from = "InsufficientBalance" -> to \in {"Active", "Cancelled"}

\* TRUE for Ok(()), FALSE for Err(InvalidStatusTransition).
validate_status_transition(from, to) ==
    IF from = to THEN TRUE
    ELSE CASE from = "Active" -> to \in {"Paused", "Cancelled", "InsufficientBalance"}
           [] from = "Paused" -> to \in {"Active", "Cancelled"}
           [] from = "Cancelled" -> FALSE
           [] from = "InsufficientBalance" -> to \in {"Active", "Cancelled"}

(* ----------------------------- integers ------------------------------ *)

\* i128::checked_add / checked_sub: None when the result is unrepresentable.
checked_add(a, b) == IF a + b > I128_MAX \/ a + b < I128_MIN THEN None ELSE Some(a + b)
checked_sub(a, b) == IF a - b > I128_MAX \/ a - b < I128_MIN THEN None ELSE Some(a - b)

(* ---------------------------- queries.rs ----------------------------- *)

\* Option<Subscription>; the callers turn None into Err(NotFound).
get_subscription(S, id) == IF id \in DOMAIN S THEN Some(S[id]) ELSE None

(* -------------------------- charge_core.rs --------------------------- *)

\* A call's outcome: its result ("Ok", an Error, or "Trap" for a panic, which
\* the host rolls back) and the store it leaves.
Outcome(r, St) == [res |-> r, st |-> St]

\* u64::checked_add: None above u64::MAX.
checked_add_u64(a, b) == IF a + b > U64_MAX THEN None ELSE Some(a + b)

\* `now / sub.interval_seconds`: None stands for the division-by-zero panic.
period_of(t, interval_seconds) ==
    IF interval_seconds = 0 THEN None ELSE Some(t \div interval_seconds)

\* idem_hit switched off: a stored key never short-circuits the call.
idem_hit_off(St, id, key) == FALSE

\* The idempotent return: a key was supplied and equals the stored one.
idem_hit(St, id, key) ==
    key # None /\ St.idem[id] # None /\ St.idem[id] = key

\* replay_hit with `<` for `<=`: the stored period itself is not rejected.
replay_hit_strict(St, id, period_index) ==
    St.cp[id] # None /\ period_index < St.cp[id][1]

\* replay_hit switched off: no period is ever rejected.
replay_hit_off(St, id, period_index) == FALSE

\* The replay guard: a stored period exists and period_index <= stored_period.
replay_hit(St, id, period_index) ==
    St.cp[id] # None /\ period_index <= St.cp[id][1]

\* interval_not_elapsed one second late: now + 1 < next_allowed.
interval_not_elapsed_early(t, next_allowed) == t + 1 < next_allowed

\* The interval guard: now < next_allowed.
interval_not_elapsed(t, next_allowed) == t < next_allowed

\* The balance check: prepaid_balance < amount.
balance_short(sub) == sub.prepaid_balance < sub.amount

\* mark_insufficient without the storage write.
mark_insufficient_unsaved(St, id) == St

\* The store after the failed balance check: only the status is written.
mark_insufficient(St, id) ==
    [St EXCEPT !.subs[id].status = "InsufficientBalance"]

\* apply_debit that leaves last_payment_timestamp as it was.
apply_debit_time_kept(St, t, id, new_balance, period_index, key) ==
    [St EXCEPT !.subs[id].prepaid_balance = new_balance,
               !.cp[id] = Some(period_index),
               !.idem[id] = IF key # None THEN key ELSE @]

\* apply_debit that also clears the stored key when the call carries none.
apply_debit_key_cleared(St, t, id, new_balance, period_index, key) ==
    [St EXCEPT !.subs[id].prepaid_balance = new_balance,
               !.subs[id].last_payment_timestamp = t,
               !.cp[id] = Some(period_index),
               !.idem[id] = key]

\* apply_debit with only the balance written: neither last_payment_timestamp
\* nor the charged period nor the key is recorded.
apply_debit_balance_only(St, t, id, new_balance, period_index, key) ==
    [St EXCEPT !.subs[id].prepaid_balance = new_balance]

\* apply_debit that never stores the idempotency key.
apply_debit_key_dropped(St, t, id, new_balance, period_index, key) ==
    [St EXCEPT !.subs[id].prepaid_balance = new_balance,
               !.subs[id].last_payment_timestamp = t,
               !.cp[id] = Some(period_index)]

\* apply_debit with the zero-balance transition charge_usage_one makes.
apply_debit_flag_empty(St, t, id, new_balance, period_index, key) ==
    [St EXCEPT !.subs[id].prepaid_balance = new_balance,
               !.subs[id].last_payment_timestamp = t,
               !.subs[id].status = IF new_balance = 0 THEN "InsufficientBalance" ELSE @,
               !.cp[id] = Some(period_index),
               !.idem[id] = IF key # None THEN key ELSE @]

\* The store after a debit: the record, the charged period, and the key if any.
apply_debit(St, t, id, new_balance, period_index, key) ==
    [St EXCEPT !.subs[id].prepaid_balance = new_balance,
               !.subs[id].last_payment_timestamp = t,
               !.cp[id] = Some(period_index),
               !.idem[id] = IF key # None THEN key ELSE @]

charge_one(St, t, id, key) ==
    LET got == get_subscription(St.subs, id) IN
    IF got = None THEN Outcome("NotFound", St)
    ELSE LET sub == got[1] IN
    IF sub.status # "Active" THEN Outcome("NotActive", St)
    ELSE LET period == period_of(t, sub.interval_seconds) IN
    IF period = None THEN Outcome("Trap", St)
    ELSE LET period_index == period[1] IN
    IF idem_hit(St, id, key) THEN Outcome("Ok", St)
    ELSE IF replay_hit(St, id, period_index) THEN Outcome("Replay", St)
    ELSE LET next_allowed == checked_add_u64(sub.last_payment_timestamp, sub.interval_seconds) IN
    IF next_allowed = None THEN Outcome("Overflow", St)
    ELSE IF interval_not_elapsed(t, next_allowed[1]) THEN Outcome("IntervalNotElapsed", St)
    ELSE IF balance_short(sub) THEN
        IF ~validate_status_transition(sub.status, "InsufficientBalance")
        THEN Outcome("InvalidStatusTransition", St)
        ELSE Outcome("InsufficientBalance", mark_insufficient(St, id))
    ELSE LET new_balance == checked_sub(sub.prepaid_balance, sub.amount) IN
    IF new_balance = None THEN Outcome("Overflow", St)
    ELSE Outcome("Ok", apply_debit(St, t, id, new_balance[1], period_index, key))

\* apply_usage without the zero-balance transition.
apply_usage_status_kept(St, id, new_balance) ==
    [St EXCEPT !.subs[id].prepaid_balance = new_balance]

\* The store after a usage debit; an emptied vault becomes InsufficientBalance.
apply_usage(St, id, new_balance) ==
    [St EXCEPT !.subs[id].prepaid_balance = new_balance,
               !.subs[id].status = IF new_balance = 0 THEN "InsufficientBalance" ELSE @]

\* charge_usage_one with the amount check moved before the usage_enabled check.
charge_usage_one_amount_first(St, id, usage_amount) ==
    LET got == get_subscription(St.subs, id) IN
    IF got = None THEN Outcome("NotFound", St)
    ELSE LET sub == got[1] IN
    IF sub.status # "Active" THEN Outcome("NotActive", St)
    ELSE IF usage_amount <= 0 THEN Outcome("InvalidAmount", St)
    ELSE IF ~sub.usage_enabled THEN Outcome("UsageNotEnabled", St)
    ELSE IF sub.prepaid_balance < usage_amount THEN Outcome("InsufficientPrepaidBalance", St)
    ELSE Outcome("Ok", apply_usage(St, id, sub.prepaid_balance - usage_amount))

charge_usage_one(St, id, usage_amount) ==
    LET got == get_subscription(St.subs, id) IN
    IF got = None THEN Outcome("NotFound", St)
    ELSE LET sub == got[1] IN
    IF sub.status # "Active" THEN Outcome("NotActive", St)
    ELSE IF ~sub.usage_enabled THEN Outcome("UsageNotEnabled", St)
    ELSE IF usage_amount <= 0 THEN Outcome("InvalidAmount", St)
    ELSE IF sub.prepaid_balance < usage_amount THEN Outcome("InsufficientPrepaidBalance", St)
    ELSE LET new_balance == checked_sub(sub.prepaid_balance, usage_amount) IN
    IF new_balance = None THEN Outcome("Overflow", St)
    ELSE IF new_balance[1] = 0 /\ ~validate_status_transition(sub.status, "InsufficientBalance")
    THEN Outcome("InvalidStatusTransition", St)
    ELSE Outcome("Ok", apply_usage(St, id, new_balance[1]))

(* ----------------------------- admin.rs ------------------------------ *)

\* The admin configuration: [token, admin, min_topup], each an Option.
do_init(token_, admin_, min_topup_) ==
    [res |-> "Ok", token |-> Some(token_), admin |-> Some(admin_), min_topup |-> Some(min_topup_)]

\* Result<Address, Error>: Err(Unauthorized) when no admin is stored.
require_admin(stored) == IF stored = None THEN "Unauthorized" ELSE "Ok"

do_set_min_topup(stored, mt, caller, value) ==
    IF require_admin(stored) # "Ok" THEN [res |-> "Unauthorized", min_topup |-> mt]
    ELSE IF caller # stored[1] THEN [res |-> "Unauthorized", min_topup |-> mt]
    ELSE [res |-> "Ok", min_topup |-> Some(value)]

get_min_topup(mt) == IF mt = None THEN "NotFound" ELSE "Ok"

BatchChargeResult(r) ==
    IF r = "Ok" THEN [success |-> TRUE, error_code |-> 0]
    ELSE [success |-> FALSE, error_code |-> to_code(r)]

\* The loop of do_batch_charge: charge_one(env, id, None) for each id in order,
\* each on the store the previous one left.  A panic inside a charge aborts
\* the whole invocation.
RECURSIVE batch_loop(_, _, _, _)
batch_loop(St, t, ids, results) ==
    IF ids = << >> THEN [res |-> "Ok", results |-> results, st |-> St]
    ELSE LET r == charge_one(St, t, Head(ids), None) IN
         IF r.res = "Trap" THEN [res |-> "Trap", results |-> << >>, st |-> St]
         ELSE batch_loop(r.st, t, Tail(ids), Append(results, BatchChargeResult(r.res)))

\* do_batch_charge without auth_admin.require_auth(): any signer may charge.
do_batch_charge_any_signer(St, stored, signer, t, ids) ==
    IF require_admin(stored) # "Ok" THEN [res |-> "Unauthorized", results |-> << >>, st |-> St]
    ELSE LET r == batch_loop(St, t, ids, << >>) IN
         IF r.res = "Trap" THEN [res |-> "Trap", results |-> << >>, st |-> St] ELSE r

\* `signer` is the principal authorizing the invocation: require_auth() of the
\* stored admin panics for anyone else.
do_batch_charge(St, stored, signer, t, ids) ==
    IF require_admin(stored) # "Ok" THEN [res |-> "Unauthorized", results |-> << >>, st |-> St]
    ELSE IF signer # stored[1] THEN [res |-> "Trap", results |-> << >>, st |-> St]
    ELSE LET r == batch_loop(St, t, ids, << >>) IN
         IF r.res = "Trap" THEN [res |-> "Trap", results |-> << >>, st |-> St] ELSE r

do_rotate_admin(stored, current_admin, new_admin) ==
    IF stored = None THEN [res |-> "NotFound", admin |-> stored]
    ELSE IF current_admin # stored[1] THEN [res |-> "Unauthorized", admin |-> stored]
    ELSE [res |-> "Ok", admin |-> Some(new_admin)]

\* do_recover_stranded_funds without the amount check.
do_recover_stranded_funds_any_amount(stored, caller, amount) ==
    IF stored = None THEN "NotFound"
    ELSE IF caller # stored[1] THEN "Unauthorized"
    ELSE "Ok"

\* Publishes a recovery event; no storage is written (the transfer is a TODO).
do_recover_stranded_funds(stored, caller, amount) ==
    IF stored = None THEN "NotFound"
    ELSE IF caller # stored[1] THEN "Unauthorized"
    ELSE IF amount <= 0 THEN "InvalidRecoveryAmount"
    ELSE "Ok"

(* -------------------------- subscription.rs -------------------------- *)

NewSubscription(a, t) ==
    [subscriber |-> a.subscriber, merchant |-> a.merchant, amount |-> a.amount,
     interval_seconds |-> a.interval_seconds, last_payment_timestamp |-> t,
     status |-> "Active", prepaid_balance |-> 0, usage_enabled |-> a.usage_enabled]

\* Extends a function over 0 .. id-1 to id.
Put(f, id, v) == [i \in DOMAIN f \cup {id} |-> IF i = id THEN v ELSE f[i]]

\* Variant of do_create_subscription that puts the new id in front of the index.
do_create_subscription_index_front(S, nid, index, a, t) ==
    [res |-> "Ok", id |-> nid, next_id |-> nid + 1,
     subs |-> Put(S, nid, NewSubscription(a, t)),
     merchant_subs |-> [index EXCEPT ![a.merchant] = << nid >> \o @]]

\* Variant of do_create_subscription whose counter is not advanced.
do_create_subscription_id_reused(S, nid, index, a, t) ==
    [res |-> "Ok", id |-> nid, next_id |-> nid,
     subs |-> Put(S, nid, NewSubscription(a, t)),
     merchant_subs |-> [index EXCEPT ![a.merchant] = Append(@, nid)]]

\* Returns the id, the counter after next_id(), the records and the index.
do_create_subscription(S, nid, index, a, t) ==
    [res |-> "Ok", id |-> nid, next_id |-> nid + 1,
     subs |-> Put(S, nid, NewSubscription(a, t)),
     merchant_subs |-> [index EXCEPT ![a.merchant] = Append(@, nid)]]

SubOutcome(r, S) == [res |-> r, subs |-> S]

\* Variant of do_deposit_funds that also rejects amount = min_topup.
do_deposit_funds_strict_minimum(S, mt, tok, id, amount, transfer_ok) ==
    IF get_min_topup(mt) # "Ok" THEN SubOutcome("NotFound", S)
    ELSE IF amount <= mt[1] THEN SubOutcome("BelowMinimumTopup", S)
    ELSE LET got == get_subscription(S, id) IN
    IF got = None THEN SubOutcome("NotFound", S)
    ELSE LET new_balance == checked_add(got[1].prepaid_balance, amount) IN
    IF new_balance = None THEN SubOutcome("Overflow", S)
    ELSE IF tok = None THEN SubOutcome("NotFound", S)
    ELSE IF ~transfer_ok THEN SubOutcome("Trap", S)
    ELSE SubOutcome("Ok", [S EXCEPT ![id].prepaid_balance = new_balance[1]])

\* `transfer_ok`: whether token_client.transfer returns; it panics otherwise.
do_deposit_funds(S, mt, tok, id, amount, transfer_ok) ==
    IF get_min_topup(mt) # "Ok" THEN SubOutcome("NotFound", S)
    ELSE IF amount < mt[1] THEN SubOutcome("BelowMinimumTopup", S)
    ELSE LET got == get_subscription(S, id) IN
    IF got = None THEN SubOutcome("NotFound", S)
    ELSE LET new_balance == checked_add(got[1].prepaid_balance, amount) IN
    IF new_balance = None THEN SubOutcome("Overflow", S)
    ELSE IF tok = None THEN SubOutcome("NotFound", S)
    ELSE IF ~transfer_ok THEN SubOutcome("Trap", S)
    ELSE SubOutcome("Ok", [S EXCEPT ![id].prepaid_balance = new_balance[1]])

\* Variant of do_cancel_subscription without the authorizer comparison.
do_cancel_subscription_any_signer(S, id, authorizer) ==
    LET got == get_subscription(S, id) IN
    IF got = None THEN SubOutcome("NotFound", S)
    ELSE IF ~validate_status_transition(got[1].status, "Cancelled")
    THEN SubOutcome("InvalidStatusTransition", S)
    ELSE SubOutcome("Ok", [S EXCEPT ![id].status = "Cancelled"])

do_cancel_subscription(S, id, authorizer) ==
    LET got == get_subscription(S, id) IN
    IF got = None THEN SubOutcome("NotFound", S)
    ELSE IF authorizer # got[1].subscriber /\ authorizer # got[1].merchant
    THEN SubOutcome("Unauthorized", S)
    ELSE IF ~validate_status_transition(got[1].status, "Cancelled")
    THEN SubOutcome("InvalidStatusTransition", S)
    ELSE SubOutcome("Ok", [S EXCEPT ![id].status = "Cancelled"])

\* Variant of do_pause_subscription that also switches usage billing off.
do_pause_subscription_usage_off(S, id, authorizer) ==
    LET got == get_subscription(S, id) IN
    IF got = None THEN SubOutcome("NotFound", S)
    ELSE IF ~validate_status_transition(got[1].status, "Paused")
    THEN SubOutcome("InvalidStatusTransition", S)
    ELSE SubOutcome("Ok", [S EXCEPT ![id].status = "Paused",
                                    ![id].usage_enabled = FALSE])

do_pause_subscription(S, id, authorizer) ==
    LET got == get_subscription(S, id) IN
    IF got = None THEN SubOutcome("NotFound", S)
    ELSE IF ~validate_status_transition(got[1].status, "Paused")
    THEN SubOutcome("InvalidStatusTransition", S)
    ELSE SubOutcome("Ok", [S EXCEPT ![id].status = "Paused"])

do_resume_subscription(S, id, authorizer) ==
    LET got == get_subscription(S, id) IN
    IF got = None THEN SubOutcome("NotFound", S)
    ELSE IF ~validate_status_transition(got[1].status, "Active")
    THEN SubOutcome("InvalidStatusTransition", S)
    ELSE SubOutcome("Ok", [S EXCEPT ![id].status = "Active"])

\* The record is written before the token is looked up, so Err(NotFound) for a
\* missing token leaves the zeroed balance; a panicking transfer is rolled back.
do_withdraw_subscriber_funds(S, tok, id, subscriber, transfer_ok) ==
    LET got == get_subscription(S, id) IN
    IF got = None THEN SubOutcome("NotFound", S)
    ELSE IF subscriber # got[1].subscriber THEN SubOutcome("Unauthorized", S)
    ELSE IF got[1].status # "Cancelled" THEN SubOutcome("InvalidStatusTransition", S)
    ELSE IF got[1].prepaid_balance > 0 THEN
        LET zeroed == [S EXCEPT ![id].prepaid_balance = 0] IN
        IF tok = None THEN SubOutcome("NotFound", zeroed)
        ELSE IF ~transfer_ok THEN SubOutcome("Trap", S)
        ELSE SubOutcome("Ok", zeroed)
    ELSE SubOutcome("Ok", S)

(* ------------------------------ history ------------------------------ *)

\* A charge_one call applied a debit: it returned Ok and wrote the store.
Debited(r, St) == r.res = "Ok" /\ r.st # St

\* The ids debited by the loop of a batch, in order.
RECURSIVE batch_debits(_, _, _)
batch_debits(St, t, ids) ==
    IF ids = << >> THEN << >>
    ELSE LET r == charge_one(St, t, Head(ids), None) IN
         (IF Debited(r, St) THEN << Head(ids) >> ELSE << >>)
             \o batch_debits(r.st, t, Tail(ids))

RECURSIVE LogDebits(_, _, _)
LogDebits(log, ids, t) ==
    IF ids = << >> THEN log
    ELSE LogDebits([log EXCEPT ![Head(ids)] = Append(@, t)], Tail(ids), t)

(* ------------------------------ actions ------------------------------ *)

BatchInputs(ids) == UNION {[1 .. n -> ids] : n \in 0 .. MaxBatch}

Init ==
    /\ now = 0
    /\ token = None
    /\ admin = None
    /\ min_topup = None
    /\ next_id = 0
    /\ subs = << >>
    /\ cp = << >>
    /\ idem = << >>
    /\ merchant_subs = [m \in Merchants |-> << >>]
    /\ created_at = << >>
    /\ debit_log = << >>
    /\ rotated_out = {}

\* The ledger closes: the timestamp advances.
Tick ==
    /\ now < MaxTime
    /\ now' = now + 1
    /\ UNCHANGED << token, admin, min_topup, next_id, subs, cp, idem,
                    merchant_subs, created_at, debit_log, rotated_out >>

InitContract(token_, admin_, min_topup_) ==
    LET r == do_init(token_, admin_, min_topup_) IN
    /\ token' = r.token
    /\ admin' = r.admin
    /\ min_topup' = r.min_topup
    /\ UNCHANGED << now, next_id, subs, cp, idem, merchant_subs, created_at, debit_log, rotated_out >>

SetMinTopup(caller, value) ==
    /\ min_topup' = do_set_min_topup(admin, min_topup, caller, value).min_topup
    /\ UNCHANGED << now, token, admin, next_id, subs, cp, idem,
                    merchant_subs, created_at, debit_log, rotated_out >>

RotateAdmin(current_admin, new_admin) ==
    LET r == do_rotate_admin(admin, current_admin, new_admin) IN
    /\ admin' = r.admin
    /\ rotated_out' = IF r.res = "Ok"
                      THEN (rotated_out \cup {current_admin}) \ {new_admin}
                      ELSE rotated_out
    /\ UNCHANGED << now, token, min_topup, next_id, subs, cp, idem,
                    merchant_subs, created_at, debit_log >>

RecoverStrandedFunds(caller, amount) ==
    /\ do_recover_stranded_funds(admin, caller, amount) \in
           {"Ok", "NotFound", "Unauthorized", "InvalidRecoveryAmount"}
    /\ UNCHANGED vars

\* `ids` are the ids of the specification; its last id is never created.
CreateSubscription(a, ids) ==
    /\ next_id + 1 \in ids
    /\ LET r == do_create_subscription(subs, next_id, merchant_subs, a, now) IN
       /\ subs' = r.subs
       /\ next_id' = r.next_id
       /\ merchant_subs' = r.merchant_subs
       /\ cp' = Put(cp, r.id, None)
       /\ idem' = Put(idem, r.id, None)
       /\ created_at' = Put(created_at, r.id, now)
       /\ debit_log' = Put(debit_log, r.id, << >>)
    /\ UNCHANGED << now, token, admin, min_topup, rotated_out >>

DepositFunds(id, amount, transfer_ok) ==
    /\ subs' = do_deposit_funds(subs, min_topup, token, id, amount, transfer_ok).subs
    /\ UNCHANGED << now, token, admin, min_topup, next_id, cp, idem,
                    merchant_subs, created_at, debit_log, rotated_out >>

ChargeInterval(id, key) ==
    LET r == charge_one(Store, now, id, key) IN
    /\ subs' = r.st.subs
    /\ cp' = r.st.cp
    /\ idem' = r.st.idem
    /\ debit_log' = IF Debited(r, Store) THEN LogDebits(debit_log, << id >>, now)
                    ELSE debit_log
    /\ UNCHANGED << now, token, admin, min_topup, next_id, merchant_subs, created_at, rotated_out >>

ChargeUsage(id, usage_amount) ==
    LET r == charge_usage_one(Store, id, usage_amount) IN
    /\ subs' = r.st.subs
    /\ UNCHANGED << now, token, admin, min_topup, next_id, cp, idem,
                    merchant_subs, created_at, debit_log, rotated_out >>

BatchCharge(signer, ids) ==
    LET r == do_batch_charge(Store, admin, signer, now, ids) IN
    /\ subs' = r.st.subs
    /\ cp' = r.st.cp
    /\ idem' = r.st.idem
    /\ debit_log' = IF r.res = "Ok" THEN LogDebits(debit_log, batch_debits(Store, now, ids), now)
                    ELSE debit_log
    /\ UNCHANGED << now, token, admin, min_topup, next_id, merchant_subs, created_at, rotated_out >>

PauseSubscription(id, authorizer) ==
    /\ subs' = do_pause_subscription(subs, id, authorizer).subs
    /\ UNCHANGED << now, token, admin, min_topup, next_id, cp, idem,
                    merchant_subs, created_at, debit_log, rotated_out >>

ResumeSubscription(id, authorizer) ==
    /\ subs' = do_resume_subscription(subs, id, authorizer).subs
    /\ UNCHANGED << now, token, admin, min_topup, next_id, cp, idem,
                    merchant_subs, created_at, debit_log, rotated_out >>

CancelSubscription(id, authorizer) ==
    /\ subs' = do_cancel_subscription(subs, id, authorizer).subs
    /\ UNCHANGED << now, token, admin, min_topup, next_id, cp, idem,
                    merchant_subs, created_at, debit_log, rotated_out >>

WithdrawSubscriberFunds(id, subscriber, transfer_ok) ==
    /\ subs' = do_withdraw_subscriber_funds(subs, token, id, subscriber, transfer_ok).subs
    /\ UNCHANGED << now, token, admin, min_topup, next_id, cp, idem,
                    merchant_subs, created_at, debit_log, rotated_out >>

\* The operations over one subscription, with every argument value; the
\* rotations of the admin are explored by SpecAdmin.
Next ==
    \/ Tick
    \/ \E t \in Tokens, a \in Admins, m \in MinTopups : InitContract(t, a, m)
    \/ \E a \in Admins, m \in MinTopups : SetMinTopup(a, m)
    \/ \E a \in Admins, x \in RecoveryAmounts : RecoverStrandedFunds(a, x)
    \/ \E a \in CreateArgs : CreateSubscription(a, SubIds)
    \/ \E id \in SubIds, x \in DepositAmounts, ok \in BOOLEAN : DepositFunds(id, x, ok)
    \/ \E id \in SubIds, k \in OptKeys : ChargeInterval(id, k)
    \/ \E id \in SubIds, x \in UsageAmounts : ChargeUsage(id, x)
    \/ \E a \in Admins, ids \in BatchInputs(SubIds) : BatchCharge(a, ids)
    \/ \E id \in SubIds, a \in Addresses : PauseSubscription(id, a)
    \/ \E id \in SubIds, a \in Addresses : ResumeSubscription(id, a)
    \/ \E id \in SubIds, a \in Addresses : CancelSubscription(id, a)
    \/ \E id \in SubIds, a \in Addresses, ok \in BOOLEAN : WithdrawSubscriberFunds(id, a, ok)

Spec == Init /\ [][Next]_vars

\* Two subscriptions under a fixed configuration: creation, funding, the
\* clock, single and batch interval charges, and pausing.
PairCreateArgs == {a \in CreateArgs : a.interval_seconds # 0 /\ (a.usage_enabled \/ a.amount < 0)}

NextPair ==
    \/ Tick
    \/ InitContract("usdc", "a1", 1)
    \/ \E a \in PairCreateArgs : CreateSubscription(a, PairIds)
    \/ \E id \in PairIds : DepositFunds(id, 2, TRUE)
    \/ \E id \in PairIds : ChargeInterval(id, None)
    \/ \E ids \in BatchInputs(PairIds) : BatchCharge("a1", ids)
    \/ \E id \in PairIds : PauseSubscription(id, "s1")

SpecPair == Init /\ [][NextPair]_vars

\* The admin configuration and its callers, with the rotations recorded in
\* rotated_out, next to one subscription the batch can charge.
AdminCreateArgs == {a \in CreateArgs : a.interval_seconds # 0 /\ a.amount > 0 /\ ~a.usage_enabled}

NextAdmin ==
    \/ Tick
    \/ \E t \in Tokens, a \in Admins, m \in MinTopups : InitContract(t, a, m)
    \/ \E a \in Admins, m \in MinTopups : SetMinTopup(a, m)
    \/ \E a \in Admins, b \in Admins : RotateAdmin(a, b)
    \/ \E a \in Admins, x \in RecoveryAmounts : RecoverStrandedFunds(a, x)
    \/ \E a \in AdminCreateArgs : CreateSubscription(a, SubIds)
    \/ \E id \in SubIds : DepositFunds(id, 2, TRUE)
    \/ \E a \in Admins, ids \in BatchInputs(SubIds) : BatchCharge(a, ids)

SpecAdmin == Init /\ [][NextAdmin]_vars

(* ---------------------- queries.rs: pagination ---------------------- *)

\* `start + limit` on u32.  The addition is unchecked in the source: a build
\* with overflow checks panics on a sum above u32::MAX, a build without them
\* wraps it (overflow_checks tells the builds apart).
add_u32(a, b, overflow_checks) ==
    IF a + b <= U32_MAX THEN Some(a + b)
    ELSE IF overflow_checks THEN None
    ELSE Some((a + b) % (U32_MAX + 1))

\* The records of ids[start .. end - 1] (0-based), in list order.
page_of(S, ids, start, end) ==
    [i \in 1 .. (IF end > start THEN end - start ELSE 0) |-> S[ids[start + i]]]

get_subscriptions_by_merchant(S, index, merchant, start, limit, overflow_checks) ==
    LET ids == index[merchant]
        len == Len(ids) IN
    IF start >= len \/ limit = 0 THEN [res |-> "Ok", list |-> << >>]
    ELSE LET sum == add_u32(start, limit, overflow_checks) IN
    IF sum = None THEN [res |-> "Trap", list |-> << >>]
    ELSE LET end == IF sum[1] > len THEN len ELSE sum[1] IN
    [res |-> "Ok", list |-> page_of(S, ids, start, end)]

get_merchant_subscription_count(index, merchant) == Len(index[merchant])

(* -------------------------- one-off charge --------------------------- *)

\* charge_one_off that also flags a drained vault, as a usage charge does.
charge_one_off_flags_drained(S, id, caller, amount) ==
    LET got == get_subscription(S, id) IN
    IF got = None THEN SubOutcome("NotFound", S)
    ELSE LET sub == got[1] IN
    IF caller # sub.merchant THEN SubOutcome("Unauthorized", S)
    ELSE IF sub.status \notin {"Active", "Paused"} THEN SubOutcome("NotActive", S)
    ELSE IF amount <= 0 THEN SubOutcome("InvalidAmount", S)
    ELSE IF sub.prepaid_balance < amount THEN SubOutcome("InsufficientBalance", S)
    ELSE LET new_balance == checked_sub(sub.prepaid_balance, amount) IN
    IF new_balance = None THEN SubOutcome("Overflow", S)
    ELSE SubOutcome("Ok", [S EXCEPT ![id].prepaid_balance = new_balance[1],
                                    ![id].status = IF new_balance[1] = 0
                                                   THEN "InsufficientBalance" ELSE @])

\* The merchant-initiated one-off debit, whose effect OneOffChargedEvent
\* reports: the merchant of the subscription only, status Active or Paused,
\* a positive amount covered by the balance; the debit changes the balance
\* and no status.
charge_one_off(S, id, caller, amount) ==
    LET got == get_subscription(S, id) IN
    IF got = None THEN SubOutcome("NotFound", S)
    ELSE LET sub == got[1] IN
    IF caller # sub.merchant THEN SubOutcome("Unauthorized", S)
    ELSE IF sub.status \notin {"Active", "Paused"} THEN SubOutcome("NotActive", S)
    ELSE IF amount <= 0 THEN SubOutcome("InvalidAmount", S)
    ELSE IF sub.prepaid_balance < amount THEN SubOutcome("InsufficientBalance", S)
    ELSE LET new_balance == checked_sub(sub.prepaid_balance, amount) IN
    IF new_balance = None THEN SubOutcome("Overflow", S)
    ELSE SubOutcome("Ok", [S EXCEPT ![id].prepaid_balance = new_balance[1]])

ChargeOneOff(id, caller, amount) ==
    /\ subs' = charge_one_off(subs, id, caller, amount).subs
    /\ UNCHANGED << now, token, admin, min_topup, next_id, cp, idem,
                    merchant_subs, created_at, debit_log, rotated_out >>

\* One subscription under interval and one-off charges.
NextOneOff ==
    \/ Tick
    \/ InitContract("usdc", "a1", 1)
    \/ \E a \in CreateArgs : CreateSubscription(a, SubIds)
    \/ \E id \in SubIds : DepositFunds(id, 2, TRUE)
    \/ \E id \in SubIds : ChargeInterval(id, None)
    \/ \E id \in SubIds, a \in Addresses, x \in UsageAmounts : ChargeOneOff(id, a, x)
    \/ \E id \in SubIds : PauseSubscription(id, "s1")
    \/ \E id \in SubIds : CancelSubscription(id, "s1")

SpecOneOff == Init /\ [][NextOneOff]_vars

(* ---------------------------- queries.rs ----------------------------- *)

\* num_intervals values tried by the claims.
NumIntervals == {0, 1, 2}

checked_mul(a, b) ==
    IF a * b > I128_MAX \/ a * b < I128_MIN THEN None ELSE Some(a * b)

Max0(x) == IF x > 0 THEN x ELSE 0

\* Result<i128, Error>; a subtraction that is not representable counts as 0.
estimate_topup_for_intervals(S, id, num_intervals) ==
    LET got == get_subscription(S, id) IN
    IF got = None THEN [res |-> "NotFound", value |-> 0]
    ELSE IF num_intervals = 0 THEN [res |-> "Ok", value |-> 0]
    ELSE LET required == checked_mul(got[1].amount, num_intervals) IN
    IF required = None THEN [res |-> "Overflow", value |-> 0]
    ELSE LET diff == checked_sub(required[1], got[1].prepaid_balance) IN
    [res |-> "Ok", value |-> Max0(IF diff = None THEN 0 ELSE diff[1])]

(* --------------------------- safe_math.rs ---------------------------- *)

\* Result<i128, Error> of the arithmetic helpers.
MathOk(v) == [res |-> "Ok", value |-> v]
MathErr(e) == [res |-> e, value |-> 0]

safe_add(a, b) ==
    LET s == checked_add(a, b) IN
    IF s = None THEN MathErr("Overflow") ELSE MathOk(s[1])

safe_sub(a, b) ==
    LET d == checked_sub(a, b) IN
    IF d = None THEN MathErr("Underflow") ELSE MathOk(d[1])

validate_non_negative(amount) == IF amount < 0 THEN "Underflow" ELSE "Ok"

safe_add_balance(balance, amount) ==
    IF validate_non_negative(amount) # "Ok" THEN MathErr("Underflow")
    ELSE safe_add(balance, amount)

safe_sub_balance(balance, amount) ==
    IF validate_non_negative(amount) # "Ok" THEN MathErr("Underflow")
    ELSE LET result == safe_sub(balance, amount) IN
    IF result.res # "Ok" THEN result
    ELSE IF result.value < 0 THEN MathErr("Underflow")
    ELSE result

(* ============================== claims =============================== *)

Ids == DOMAIN subs
Last(q) == q[Len(q)]
\* The billing period of time t for interval i > 0.
Period(t, i) == t \div i

(* ------------------------------- C1 ---------------------------------- *)

\* C1: over any sequence of charge_interval calls (with or without key),
\* batch_charge calls, deposits, pause/resume and clock advances, no two
\* interval debits of one subscription fall into the same billing period
\* now / interval_seconds.
C1_OneDebitPerPeriod ==
    \A id \in Ids :
        \A i, j \in DOMAIN debit_log[id] :
            i < j => Period(debit_log[id][i], subs[id].interval_seconds)
                       # Period(debit_log[id][j], subs[id].interval_seconds)

\* Two debits were applied, and the subscription is Active and funded again
\* while the period of the second debit is still current.
C1_Witness ==
    \E id \in Ids :
        /\ Len(debit_log[id]) = 2
        /\ subs[id].status = "Active"
        /\ subs[id].amount > 0
        /\ subs[id].prepaid_balance >= subs[id].amount
        /\ Period(now, subs[id].interval_seconds)
             = Period(Last(debit_log[id]), subs[id].interval_seconds)

(* ------------------------------- C2 ---------------------------------- *)

\* An interval debit of id was applied in the billing period that is current.
ChargedThisPeriod(id) ==
    /\ debit_log[id] # << >>
    /\ Period(now, subs[id].interval_seconds)
         = Period(Last(debit_log[id]), subs[id].interval_seconds)

\* C2 as stated: once an interval charge succeeded in period p, every later
\* charge_interval call in period p fails with Replay, whatever key it carries.
C2_AlwaysReplay ==
    \A id \in Ids, k \in OptKeys :
        ChargedThisPeriod(id) => charge_one(Store, now, id, k).res = "Replay"

\* C2 as amended: a later call in the same period changes nothing and fails
\* with Replay, unless the subscription is no longer Active (NotActive) or the
\* call carries the key stored for the subscription (success, no debit).
C2_ReplayUnlessKeyOrInactive ==
    \A id \in Ids, k \in OptKeys :
        ChargedThisPeriod(id) =>
            LET r == charge_one(Store, now, id, k) IN
            /\ r.st = Store
            /\ r.res = IF subs[id].status # "Active" THEN "NotActive"
                       ELSE IF k # None /\ idem[id] = k THEN "Ok"
                       ELSE "Replay"

\* A charged, still Active subscription holding key k1 in the charged period:
\* a call with k1 succeeds, a call with k2 or without key is a Replay.
C2_Witness ==
    \E id \in Ids :
        /\ ChargedThisPeriod(id)
        /\ subs[id].status = "Active"
        /\ idem[id] = Some("k1")
        /\ now > Last(debit_log[id])
        /\ subs[id].prepaid_balance >= subs[id].amount

(* ------------------------------- C3 ---------------------------------- *)

\* C3: if charge_interval with key k succeeds, the same call repeated at once
\* on the store it left succeeds too and leaves that store as it is (records,
\* charged periods and keys).
C3_IdempotentRepeat ==
    \A id \in SubIds, k \in IdemKeys :
        LET r1 == charge_one(Store, now, id, Some(k)) IN
        r1.res = "Ok" =>
            LET r2 == charge_one(r1.st, now, id, Some(k)) IN
            r2.res = "Ok" /\ r2.st = r1.st

\* A debit with key k1 has just been applied, and the repeated call succeeds.
C3_Witness ==
    \E id \in Ids :
        /\ debit_log[id] # << >>
        /\ Last(debit_log[id]) = now
        /\ idem[id] = Some("k1")
        /\ subs[id].amount > 0
        /\ charge_one(Store, now, id, Some("k1")).res = "Ok"

(* ------------------------------- C4 ---------------------------------- *)

\* C4: in every reachable state every subscription's prepaid_balance is >= 0.
C4_BalanceNonNegative ==
    \A id \in Ids : subs[id].prepaid_balance >= 0

(* ------------------------------- C5 ---------------------------------- *)

TableEdges ==
    { << "Active", "Paused" >>, << "Active", "Cancelled" >>,
      << "Active", "InsufficientBalance" >>,
      << "Paused", "Active" >>, << "Paused", "Cancelled" >>,
      << "InsufficientBalance", "Active" >>, << "InsufficientBalance", "Cancelled" >> }

\* C6: in every step a subscription's status stays the same or changes along an
\* edge of the table; it never leaves Cancelled and never moves between Paused
\* and InsufficientBalance directly.
C6_StatusAlongTable ==
    [][\A id \in Ids :
          \/ subs'[id].status = subs[id].status
          \/ << subs[id].status, subs'[id].status >> \in TableEdges]_vars

\* A subscription without usage metering that an interval charge moved to
\* InsufficientBalance.
C6_Witness ==
    \E id \in Ids :
        /\ subs[id].status = "InsufficientBalance"
        /\ ~subs[id].usage_enabled
        /\ debit_log[id] # << >>

(* ------------------------------- C7 ---------------------------------- *)

\* charge_one(id, k) gets past the status check, the key check, the period
\* guard and the interval guard.
ReachesBalanceCheck(id, k) ==
    /\ id \in Ids
    /\ subs[id].status = "Active"
    /\ subs[id].interval_seconds > 0
    /\ k = None \/ idem[id] # k
    /\ cp[id] = None \/ Period(now, subs[id].interval_seconds) > cp[id][1]
    /\ now >= subs[id].last_payment_timestamp + subs[id].interval_seconds

\* C7: an interval charge that reaches the balance check with prepaid_balance <
\* amount fails with InsufficientBalance and stores the status
\* InsufficientBalance; the balance, last_payment_timestamp and everything else
\* stay as they were.
C7_InsufficientBalanceFlagged ==
    \A id \in SubIds, k \in OptKeys :
        ReachesBalanceCheck(id, k) /\ subs[id].prepaid_balance < subs[id].amount =>
            LET r == charge_one(Store, now, id, k) IN
            /\ r.res = "InsufficientBalance"
            /\ r.st.subs = [subs EXCEPT ![id].status = "InsufficientBalance"]
            /\ r.st.cp = cp
            /\ r.st.idem = idem

\* The state such a charge leaves: due, underfunded and InsufficientBalance,
\* with no usage metering that could have set the status.
C7_Witness ==
    \E id \in Ids :
        /\ subs[id].status = "InsufficientBalance"
        /\ ~subs[id].usage_enabled
        /\ subs[id].prepaid_balance < subs[id].amount
        /\ debit_log[id] # << >>
        /\ now >= subs[id].last_payment_timestamp + subs[id].interval_seconds

(* ------------------------------- C8 ---------------------------------- *)

\* C8: a charge_interval that reaches the balance check with prepaid_balance >=
\* amount and succeeds lowers prepaid_balance by exactly amount, sets
\* last_payment_timestamp to now, keeps the status Active (also at balance 0)
\* and changes no other subscription's record.
C8_DebitExact ==
    \A id \in PairIds, k \in OptKeys :
        ReachesBalanceCheck(id, k) /\ subs[id].prepaid_balance >= subs[id].amount =>
            LET r == charge_one(Store, now, id, k) IN
            /\ r.res \in {"Ok", "Overflow"}
            /\ r.res = "Ok" =>
                 /\ r.st.subs[id] =
                      [subs[id] EXCEPT !.prepaid_balance = subs[id].prepaid_balance - subs[id].amount,
                                       !.last_payment_timestamp = now]
                 /\ r.st.subs[id].status = "Active"
                 /\ \A j \in Ids \ {id} : r.st.subs[j] = subs[j]
                 /\ DOMAIN r.st.subs = Ids

\* A debit that has just emptied the vault of an Active subscription, next to
\* another subscription that holds funds.
C8_Witness ==
    \E id \in Ids, j \in Ids :
        /\ j # id
        /\ debit_log[id] # << >>
        /\ Last(debit_log[id]) = now
        /\ subs[id].amount > 0
        /\ subs[id].prepaid_balance = 0
        /\ subs[id].status = "Active"
        /\ subs[j].prepaid_balance > 0

(* ------------------------------- C9 ---------------------------------- *)

\* C9: a charge_interval that passes the status check and the replay checks
\* (key and period) before last_payment_timestamp + interval_seconds fails with
\* IntervalNotElapsed and changes nothing; so the first debit of a subscription
\* is at least interval_seconds after its creation and consecutive debits are
\* at least interval_seconds apart.
C9_IntervalRespected ==
    /\ \A id \in SubIds, k \in OptKeys :
          ( /\ id \in Ids
            /\ subs[id].status = "Active"
            /\ subs[id].interval_seconds > 0
            /\ k = None \/ idem[id] # k
            /\ cp[id] = None \/ Period(now, subs[id].interval_seconds) > cp[id][1]
            /\ now < subs[id].last_payment_timestamp + subs[id].interval_seconds )
          => charge_one(Store, now, id, k) = Outcome("IntervalNotElapsed", Store)
    /\ \A id \in Ids :
          \A i \in DOMAIN debit_log[id] :
              debit_log[id][i] >=
                  (IF i = 1 THEN created_at[id] ELSE debit_log[id][i - 1])
                      + subs[id].interval_seconds

\* Two debits, the first exactly one interval after the creation and the
\* second exactly one interval after the first.
C9_Witness ==
    \E id \in Ids :
        /\ Len(debit_log[id]) = 2
        /\ debit_log[id][1] = created_at[id] + subs[id].interval_seconds
        /\ debit_log[id][2] = debit_log[id][1] + subs[id].interval_seconds

(* ------------------------------- C10 --------------------------------- *)

\* The store after the key-less interval charges of ids, one after the other.
RECURSIVE StoreAfter(_, _, _)
StoreAfter(St, t, ids) ==
    IF ids = << >> THEN St
    ELSE StoreAfter(charge_one(St, t, Head(ids), None).st, t, Tail(ids))

\* The result entry the claim gives for the outcome of one charge.
C10_Entry(res) ==
    IF res = "Ok" THEN [success |-> TRUE, error_code |-> 0]
    ELSE [success |-> FALSE,
          error_code |-> CASE res = "NotFound" -> 404
                           [] res = "NotActive" -> 1002
                           [] res = "IntervalNotElapsed" -> 1001
                           [] res = "InsufficientBalance" -> 1003
                           [] res = "Replay" -> 1007
                           [] res = "Overflow" -> 403
                           [] OTHER -> -1]

\* C10: batch_charge(ids) called by the admin returns one entry per input id, in
\* input order and including duplicates; entry i is (TRUE, 0) iff the key-less
\* interval charge of ids[i], run after the charges of ids[1..i-1], succeeded,
\* and (FALSE, code of that charge's error) otherwise.
C10_BatchResults ==
    admin # None =>
        \A ids \in BatchInputs(SubIds) :
            LET r == do_batch_charge(Store, admin, admin[1], now, ids) IN
            /\ r.res = "Ok"
            /\ Len(r.results) = Len(ids)
            /\ \A i \in 1 .. Len(ids) :
                  r.results[i] =
                      C10_Entry(charge_one(StoreAfter(Store, now, SubSeq(ids, 1, i - 1)),
                                           now, ids[i], None).res)

(* ------------------------------- C11 --------------------------------- *)

Distinct(ids) == \A i, j \in DOMAIN ids : i # j => ids[i] # ids[j]

\* C11: in batch_charge over pairwise distinct ids no id aborts the batch, and
\* every id's result entry and final record are those of a key-less
\* charge_interval of that id alone from the same starting state.
C11_BatchIndependent ==
    admin # None =>
        \A ids \in BatchInputs(SubIds) :
            Distinct(ids) =>
                LET r == do_batch_charge(Store, admin, admin[1], now, ids) IN
                /\ r.res = "Ok"
                /\ \A i \in DOMAIN ids :
                      LET alone == charge_one(Store, now, ids[i], None) IN
                      /\ r.results[i] = BatchChargeResult(alone.res)
                      /\ ids[i] \in Ids => r.st.subs[ids[i]] = alone.st.subs[ids[i]]

(* ------------------------------- C12 --------------------------------- *)

\* C12: when a batch that returns its results names an id several times and
\* the first occurrence is charged successfully, every later occurrence fails
\* with Replay (1007) and the batch debits the subscription exactly once: its
\* record is the one the first charge alone leaves.
C12_DuplicateReplay ==
    admin # None =>
        \A ids \in BatchInputs(SubIds) :
            LET r == do_batch_charge(Store, admin, admin[1], now, ids) IN
            r.res = "Ok" =>
                \A i \in DOMAIN ids :
                    ( /\ \A h \in 1 .. i - 1 : ids[h] # ids[i]
                      /\ r.results[i].success ) =>
                        /\ \A j \in DOMAIN ids :
                              (j > i /\ ids[j] = ids[i]) =>
                                  r.results[j] = [success |-> FALSE, error_code |-> 1007]
                        /\ r.st.subs[ids[i]] =
                              charge_one(StoreAfter(Store, now, SubSeq(ids, 1, i - 1)),
                                         now, ids[i], None).st.subs[ids[i]]
                        /\ r.st.subs[ids[i]].prepaid_balance =
                              subs[ids[i]].prepaid_balance - subs[ids[i]].amount

\* A state from which the batch << id, id >> charges id at its first occurrence
\* and rejects the second with Replay, with one debit in all.
C12_Witness ==
    /\ admin # None
    /\ \E id \in Ids :
          LET r == do_batch_charge(Store, admin, admin[1], now, << id, id >>) IN
          /\ r.res = "Ok"
          /\ r.results[1] = [success |-> TRUE, error_code |-> 0]
          /\ r.results[2] = [success |-> FALSE, error_code |-> 1007]
          /\ subs[id].amount > 0
          /\ r.st.subs[id].prepaid_balance = subs[id].prepaid_balance - subs[id].amount

(* ------------------------------- C13 --------------------------------- *)

\* C13: after rotate_admin(old, new) with new # old has succeeded, and until a
\* later rotation makes old the admin again, every set_min_topup,
\* recover_stranded_funds and rotate_admin call made as old fails Unauthorized
\* and changes nothing, while the same calls made as the stored admin succeed.
C13_RotatedOutLocked ==
    /\ \A old \in rotated_out :
          /\ \A v \in MinTopups :
                do_set_min_topup(admin, min_topup, old, v)
                    = [res |-> "Unauthorized", min_topup |-> min_topup]
          /\ \A x \in RecoveryAmounts :
                do_recover_stranded_funds(admin, old, x) = "Unauthorized"
          /\ \A b \in Admins :
                do_rotate_admin(admin, old, b) = [res |-> "Unauthorized", admin |-> admin]
    /\ (admin # None /\ rotated_out # {}) =>
          /\ \A v \in MinTopups :
                do_set_min_topup(admin, min_topup, admin[1], v)
                    = [res |-> "Ok", min_topup |-> Some(v)]
          /\ \A x \in RecoveryAmounts :
                x > 0 => do_recover_stranded_funds(admin, admin[1], x) = "Ok"
          /\ \A b \in Admins :
                do_rotate_admin(admin, admin[1], b) = [res |-> "Ok", admin |-> Some(b)]

(* ------------------------------- C14 --------------------------------- *)

\* C14: once init has created the admin configuration, the funding-asset
\* identifier never changes, the stored admin changes only by a rotation out of
\* the stored admin (which leaves min_topup alone), and min_topup changes only
\* in a step that leaves the admin alone, as set_min_topup by the admin does.
C14_ConfigWrittenOnce ==
    [][admin # None =>
          /\ token' = token
          /\ admin' # admin => (admin[1] \in rotated_out' /\ min_topup' = min_topup)
          /\ min_topup' # min_topup =>
                \E v \in MinTopups :
                    min_topup' = do_set_min_topup(admin, min_topup, admin[1], v).min_topup
                    /\ admin' = admin]_vars

(* ------------------------------- C15 --------------------------------- *)

\* C15 as stated: with an admin stored, set_min_topup, batch_charge and
\* recover_stranded_funds invoked by any other principal fail Unauthorized and
\* change no state.
C15_OthersUnauthorized ==
    admin # None =>
        \A caller \in Admins \ {admin[1]} :
            /\ \A v \in MinTopups :
                  do_set_min_topup(admin, min_topup, caller, v)
                      = [res |-> "Unauthorized", min_topup |-> min_topup]
            /\ \A x \in RecoveryAmounts :
                  do_recover_stranded_funds(admin, caller, x) = "Unauthorized"
            /\ \A ids \in BatchInputs(SubIds) :
                  do_batch_charge(Store, admin, caller, now, ids)
                      = [res |-> "Unauthorized", results |-> << >>, st |-> Store]

\* C15: set_min_topup, batch_charge and recover_stranded_funds take effect only
\* for the stored admin.  By anyone else set_min_topup fails Unauthorized and
\* recover_stranded_funds fails Unauthorized (NotFound while no admin is
\* stored); batch_charge fails Unauthorized while no admin is stored and
\* otherwise aborts on the stored admin's require_auth; none changes any state.
C15_AdminOnly ==
    /\ \A caller \in Admins :
          (admin = None \/ caller # admin[1]) =>
              /\ \A v \in MinTopups :
                    do_set_min_topup(admin, min_topup, caller, v)
                        = [res |-> "Unauthorized", min_topup |-> min_topup]
              /\ \A x \in RecoveryAmounts :
                    do_recover_stranded_funds(admin, caller, x)
                        = IF admin = None THEN "NotFound" ELSE "Unauthorized"
              /\ \A ids \in BatchInputs(SubIds) :
                    do_batch_charge(Store, admin, caller, now, ids)
                        = [res |-> IF admin = None THEN "Unauthorized" ELSE "Trap",
                           results |-> << >>, st |-> Store]
    /\ admin # None =>
          /\ \A v \in MinTopups :
                do_set_min_topup(admin, min_topup, admin[1], v)
                    = [res |-> "Ok", min_topup |-> Some(v)]
          /\ \A x \in RecoveryAmounts :
                do_recover_stranded_funds(admin, admin[1], x)
                    \in {"Ok", "InvalidRecoveryAmount"}
          /\ \A ids \in BatchInputs(SubIds) :
                LET r == do_batch_charge(Store, admin, admin[1], now, ids) IN
                r.res = "Ok" /\ r.st = StoreAfter(Store, now, ids)

\* A funded subscription is due: the stored admin's batch debits it, and the
\* same batch signed by another principal leaves the store as it is.
C15_Witness ==
    /\ admin # None
    /\ \E id \in Ids, other \in Admins \ {admin[1]} :
          /\ do_batch_charge(Store, admin, admin[1], now, << id >>).results
                 = << [success |-> TRUE, error_code |-> 0] >>
          /\ do_batch_charge(Store, admin, admin[1], now, << id >>).st # Store
          /\ do_batch_charge(Store, admin, other, now, << id >>).st = Store

(* ------------------------------- C16 --------------------------------- *)

\* C16: recover_stranded_funds called by the stored admin fails with
\* InvalidRecoveryAmount when amount <= 0 and succeeds for every amount > 0; it
\* returns a result only and writes no state (the action leaves every variable
\* unchanged).
C16_RecoveryAmountChecked ==
    admin # None =>
        \A x \in RecoveryAmounts :
            do_recover_stranded_funds(admin, admin[1], x)
                = IF x <= 0 THEN "InvalidRecoveryAmount" ELSE "Ok"

\* The admin recovers next to a funded subscription with a charged period.
C16_Witness ==
    /\ admin # None
    /\ do_recover_stranded_funds(admin, admin[1], 1) = "Ok"
    /\ do_recover_stranded_funds(admin, admin[1], 0) = "InvalidRecoveryAmount"
    /\ \E id \in Ids : subs[id].prepaid_balance > 0 /\ cp[id] # None

(* ------------------------------- C17 --------------------------------- *)

\* C17: charge_usage(id, usage_amount) fails with the error of the first
\* violated precondition in the order exists (NotFound), Active (NotActive),
\* usage_enabled (UsageNotEnabled), usage_amount > 0 (InvalidAmount),
\* prepaid_balance >= usage_amount (InsufficientPrepaidBalance), and each of
\* these failures leaves the store unchanged.
C17_UsagePreconditionOrder ==
    \A id \in SubIds, x \in UsageAmounts :
        LET r == charge_usage_one(Store, id, x) IN
        /\ id \notin Ids => r = Outcome("NotFound", Store)
        /\ id \in Ids =>
              /\ subs[id].status # "Active" => r = Outcome("NotActive", Store)
              /\ (subs[id].status = "Active" /\ ~subs[id].usage_enabled)
                    => r = Outcome("UsageNotEnabled", Store)
              /\ (subs[id].status = "Active" /\ subs[id].usage_enabled /\ x <= 0)
                    => r = Outcome("InvalidAmount", Store)
              /\ ( /\ subs[id].status = "Active" /\ subs[id].usage_enabled /\ x > 0
                   /\ subs[id].prepaid_balance < x )
                    => r = Outcome("InsufficientPrepaidBalance", Store)

\* A paused subscription without usage metering: a zero usage amount violates
\* three preconditions at once and fails with the first, NotActive.
C17_Witness ==
    \E id \in Ids :
        /\ subs[id].status = "Paused"
        /\ ~subs[id].usage_enabled
        /\ subs[id].prepaid_balance < 2
        /\ charge_usage_one(Store, id, 0).res = "NotActive"

(* ------------------------------- C18 --------------------------------- *)

\* C18: a charge_usage call that passes all preconditions debits exactly
\* usage_amount, sets the status to InsufficientBalance iff the new balance is
\* 0 (otherwise it stays Active), and leaves last_payment_timestamp, the charged
\* period and the stored key untouched; an immediate second call debits again
\* while the balance allows.
C18_UsageDebitExact ==
    \A id \in Ids, x \in UsageAmounts :
        ( /\ subs[id].status = "Active" /\ subs[id].usage_enabled
          /\ x > 0 /\ subs[id].prepaid_balance >= x ) =>
            LET r == charge_usage_one(Store, id, x)
                left == subs[id].prepaid_balance - x
            IN
            /\ r.res = "Ok"
            /\ r.st.subs =
                  [subs EXCEPT ![id].prepaid_balance = left,
                               ![id].status = IF left = 0 THEN "InsufficientBalance"
                                              ELSE "Active"]
            /\ r.st.cp = cp
            /\ r.st.idem = idem
            /\ left >= x =>
                  LET again == charge_usage_one(r.st, id, x) IN
                  /\ again.res = "Ok"
                  /\ again.st.subs[id].prepaid_balance = left - x

\* A metered subscription holding 2: two usage charges of 1 at the same
\* timestamp both debit, the first keeps it Active and the second empties it.
C18_Witness ==
    \E id \in Ids :
        LET first == charge_usage_one(Store, id, 1)
            second == charge_usage_one(first.st, id, 1)
        IN
        /\ first.res = "Ok"
        /\ first.st.subs[id].status = "Active"
        /\ second.res = "Ok"
        /\ second.st.subs[id].prepaid_balance = 0
        /\ second.st.subs[id].status = "InsufficientBalance"

(* ------------------------------- C19 --------------------------------- *)

\* The subscription is InsufficientBalance and only a usage charge can have
\* made it so: no interval charge has yet been due.
DrainedByUsage(id) ==
    /\ subs[id].status = "InsufficientBalance"
    /\ subs[id].usage_enabled
    /\ debit_log[id] = << >>
    /\ now < created_at[id] + subs[id].interval_seconds

\* C19: after a usage charge has drained the balance to 0, interval and usage
\* charges are rejected while no deposit has arrived, and once a deposit covers
\* a usage charge that charge is accepted again.
C19_BlockedUntilDeposit ==
    \A id \in Ids :
        DrainedByUsage(id) =>
            /\ subs[id].prepaid_balance = 0 =>
                  /\ \A x \in UsageAmounts : charge_usage_one(Store, id, x).res # "Ok"
                  /\ \A k \in OptKeys : charge_one(Store, now, id, k).res # "Ok"
            /\ \A x \in UsageAmounts :
                  (x > 0 /\ subs[id].prepaid_balance >= x) =>
                      charge_usage_one(Store, id, x).res = "Ok"

(* ------------------------------- C20 --------------------------------- *)

\* The move is a self-transition or an edge of the table.
TableAllows(from, to) == from = to \/ << from, to >> \in TableEdges

C21_CancelAuthorized ==
    \A id \in Ids : \A a \in Addresses :
        LET r == do_cancel_subscription(subs, id, a) IN
        IF a # subs[id].subscriber /\ a # subs[id].merchant
        THEN r = SubOutcome("Unauthorized", subs)
        ELSE /\ r.res # "Unauthorized"
             /\ r.res = "Ok" => r.subs = [subs EXCEPT ![id].status = "Cancelled"]

\* A live subscription of merchant m1: the other merchant and the admin are
\* refused, the subscriber and the merchant cancel it.
C21_Witness ==
    \E id \in Ids :
        /\ subs[id].merchant = "m1" /\ subs[id].status = "Paused"
        /\ do_cancel_subscription(subs, id, "m2").res = "Unauthorized"
        /\ do_cancel_subscription(subs, id, "a1").res = "Unauthorized"
        /\ do_cancel_subscription(subs, id, "m1").res = "Ok"
        /\ do_cancel_subscription(subs, id, "s1").res = "Ok"

(* ------------------------------- C22 --------------------------------- *)

\* C22: pause_subscription and resume_subscription change a subscription's
\* status only when the authorizer is that subscription's subscriber or
\* merchant: called with any other principal they leave the records as they
\* were.
C22_PauseResumeByParty ==
    \A id \in Ids : \A a \in Addresses \ {subs[id].subscriber, subs[id].merchant} :
        /\ do_pause_subscription(subs, id, a).subs = subs
        /\ do_resume_subscription(subs, id, a).subs = subs

(* ------------------------------- C23 --------------------------------- *)

Terms(sub) ==
    << sub.subscriber, sub.merchant, sub.amount, sub.interval_seconds,
       sub.usage_enabled >>

\* C25: no operation changes the amount, interval_seconds, usage_enabled,
\* subscriber or merchant of a subscription that exists: in every step every
\* stored record is still stored and keeps these five fields.
C25_TermsFrozen ==
    [][\A id \in Ids : id \in DOMAIN subs' /\ Terms(subs'[id]) = Terms(subs[id])]_vars

\* A usage-enabled subscription of merchant m1 that was funded, debited after
\* its creation and then cancelled still carries the terms it was created with.
C25_Witness ==
    \E id \in Ids :
        /\ subs[id].status = "Cancelled"
        /\ debit_log[id] # << >>
        /\ subs[id].last_payment_timestamp > created_at[id]
        /\ Terms(subs[id]) = << "s1", "m1", 2, 2, TRUE >>

(* ------------------------------- C26 --------------------------------- *)

\* What a call that does not fault hands back: success or a typed error.
Returned == {"Ok"} \cup Error

\* C26: with every signature present and the token transfer going through,
\* every operation on every id, stored or not, returns success or a typed
\* error and never faults; batch_charge by the admin returns its result list
\* whatever ids it is given.
C26_NoUncaughtFault ==
    /\ \A id \in SubIds :
        /\ \A key \in OptKeys : charge_one(Store, now, id, key).res \in Returned
        /\ \A u \in UsageAmounts : charge_usage_one(Store, id, u).res \in Returned
        /\ \A amount \in DepositAmounts :
              do_deposit_funds(subs, min_topup, token, id, amount, TRUE).res \in Returned
        /\ \A a \in Addresses :
              /\ do_pause_subscription(subs, id, a).res \in Returned
              /\ do_resume_subscription(subs, id, a).res \in Returned
              /\ do_cancel_subscription(subs, id, a).res \in Returned
              /\ do_withdraw_subscriber_funds(subs, token, id, a, TRUE).res \in Returned
    /\ admin # None =>
          \A ids \in BatchInputs(SubIds) :
              do_batch_charge(Store, admin, admin[1], now, ids).res \in Returned

(* ------------------------------- C27 --------------------------------- *)

\* C27: an operation that returns an error leaves the whole stored state as
\* it was before the call, with one exception: charge_interval failing with
\* InsufficientBalance, which changes the status of that subscription (to
\* InsufficientBalance) and nothing else.
C27_ErrorsWriteNothing ==
    /\ \A id \in SubIds :
        /\ \A key \in OptKeys :
              LET r == charge_one(Store, now, id, key) IN
              r.res \in Error =>
                  r.st = IF r.res = "InsufficientBalance"
                         THEN [Store EXCEPT !.subs[id].status = "InsufficientBalance"]
                         ELSE Store
        /\ \A u \in UsageAmounts :
              LET r == charge_usage_one(Store, id, u) IN
              r.res \in Error => r.st = Store
        /\ \A amount \in DepositAmounts : \A ok \in BOOLEAN :
              LET r == do_deposit_funds(subs, min_topup, token, id, amount, ok) IN
              r.res \in Error => r.subs = subs
        /\ \A a \in Addresses :
              /\ LET r == do_pause_subscription(subs, id, a) IN
                 r.res \in Error => r.subs = subs
              /\ LET r == do_resume_subscription(subs, id, a) IN
                 r.res \in Error => r.subs = subs
              /\ LET r == do_cancel_subscription(subs, id, a) IN
                 r.res \in Error => r.subs = subs
              /\ \A ok \in BOOLEAN :
                    LET r == do_withdraw_subscriber_funds(subs, token, id, a, ok) IN
                    r.res \in Error => r.subs = subs
    /\ \A a \in Addresses :
        /\ \A value \in MinTopups :
              LET r == do_set_min_topup(admin, min_topup, a, value) IN
              r.res \in Error => r.min_topup = min_topup
        /\ \A b \in Admins :
              LET r == do_rotate_admin(admin, a, b) IN
              r.res \in Error => r.admin = admin

(* ------------------------------- C28 --------------------------------- *)

\* C28: charge_one_off(id, caller, amount) on a stored subscription succeeds
\* exactly when caller is the subscription's merchant, the status is Active or
\* Paused, amount > 0 and prepaid_balance >= amount; it returns Unauthorized
\* for any other caller, and NotActive, InvalidAmount or InsufficientBalance
\* only when the respective condition fails.  A failure writes nothing; a
\* success takes exactly amount off that subscription's prepaid_balance and
\* changes nothing else, the status included, even when the balance reaches 0.
C28_OneOffDebit ==
    \A id \in Ids : \A caller \in Addresses : \A amount \in I128_MIN .. I128_MAX :
        LET sub == subs[id]
            r == charge_one_off(subs, id, caller, amount)
            authorized == caller = sub.merchant
            live == sub.status \in {"Active", "Paused"}
            covered == sub.prepaid_balance >= amount IN
        /\ r.res \in {"Ok", "Unauthorized", "NotActive", "InvalidAmount", "InsufficientBalance"}
        /\ ~authorized => r.res = "Unauthorized"
        /\ r.res = "Ok" <=> (authorized /\ live /\ amount > 0 /\ covered)
        /\ r.res = "NotActive" => ~live
        /\ r.res = "InvalidAmount" => amount <= 0
        /\ r.res = "InsufficientBalance" => ~covered
        /\ r.subs = IF r.res = "Ok"
                    THEN [subs EXCEPT ![id].prepaid_balance = @ - amount]
                    ELSE subs

\* A subscription funded with 2 and never debited by an interval charge
\* holds 1: a one-off charge of 1 has been applied.  Its merchant takes the
\* rest and the status stays Active at balance 0; the subscriber is refused,
\* a zero amount is invalid and 2 is more than the balance.
C28_Witness ==
    \E id \in Ids :
        /\ debit_log[id] = << >> /\ subs[id].prepaid_balance = 1
        /\ subs[id].status = "Active"
        /\ LET r == charge_one_off(subs, id, subs[id].merchant, 1) IN
            /\ r.res = "Ok" /\ r.subs[id].prepaid_balance = 0
            /\ r.subs[id].status = "Active"
        /\ charge_one_off(subs, id, "s1", 1).res = "Unauthorized"
        /\ charge_one_off(subs, id, subs[id].merchant, 0).res = "InvalidAmount"
        /\ charge_one_off(subs, id, subs[id].merchant, 2).res = "InsufficientBalance"

(* ------------------------------- C29 --------------------------------- *)

\* The ids created so far with merchant m, in creation order.
CreatedFor(S, n, m) == SelectSeq([i \in 1 .. n |-> i - 1], LAMBDA id : S[id].merchant = m)

C30_WithdrawDrains ==
    \A id \in Ids : \A a \in Addresses :
        LET r == do_withdraw_subscriber_funds(subs, token, id, a, TRUE) IN
        /\ a # subs[id].subscriber => r = SubOutcome("Unauthorized", subs)
        /\ (a = subs[id].subscriber /\ subs[id].status # "Cancelled") =>
              (r.res \in Error /\ r.subs = subs)
        /\ r.res = "Ok" =>
              /\ r.subs = [subs EXCEPT ![id].prepaid_balance = 0]
              /\ do_withdraw_subscriber_funds(r.subs, token, id, a, TRUE)
                    = SubOutcome("Ok", r.subs)

(* ------------------------------- C31 --------------------------------- *)

\* C31: for every stored subscription and every n, estimate_topup(id, n)
\* returns 0 when n = 0, fails Overflow when amount * n is not representable,
\* and otherwise returns max(amount * n - prepaid_balance, 0), which is never
\* negative.
C31_EstimateTopup ==
    \A id \in Ids : \A n \in NumIntervals :
        LET r == estimate_topup_for_intervals(subs, id, n)
            required == subs[id].amount * n IN
        IF n = 0 THEN r = [res |-> "Ok", value |-> 0]
        ELSE IF required > I128_MAX \/ required < I128_MIN THEN r.res = "Overflow"
        ELSE /\ r.res = "Ok"
             /\ r.value = Max0(required - subs[id].prepaid_balance)
             /\ r.value >= 0

(* ------------------------------- C32 --------------------------------- *)

\* The smaller of two numbers.
Min(a, b) == IF a < b THEN a ELSE b

\* C32: for every merchant and all u32 values start and limit,
\* list_by_merchant returns the empty list when start >= length or limit = 0,
\* and otherwise exactly the records of the ids at positions
\* start .. min(start + limit, length) - 1 of the merchant's index, in that
\* order; it never faults.
C32_MerchantPage ==
    \A m \in Merchants : \A start \in 0 .. U32_MAX : \A limit \in 0 .. U32_MAX :
        \A overflow_checks \in BOOLEAN :
            LET ids == merchant_subs[m]
                r == get_subscriptions_by_merchant(subs, merchant_subs, m, start,
                                                   limit, overflow_checks) IN
            /\ r.res = "Ok"
            /\ r.list = IF start >= Len(ids) \/ limit = 0 THEN << >>
                        ELSE [i \in 1 .. (Min(start + limit, Len(ids)) - start) |->
                                 subs[ids[start + i]]]

(* ------------------------------- C33 --------------------------------- *)

\* The outcome of the first check that applies, in the order NotFound,
\* NotActive, token match, Replay, IntervalNotElapsed, InsufficientBalance.
FirstApplicable(id, key) ==
    IF id \notin Ids THEN "NotFound"
    ELSE IF subs[id].status # "Active" THEN "NotActive"
    ELSE IF key # None /\ idem[id] = key THEN "Ok"
    ELSE IF cp[id] # None /\ Period(now, subs[id].interval_seconds) <= cp[id][1]
    THEN "Replay"
    ELSE IF now < subs[id].last_payment_timestamp + subs[id].interval_seconds
    THEN "IntervalNotElapsed"
    ELSE IF subs[id].prepaid_balance < subs[id].amount THEN "InsufficientBalance"
    ELSE "Ok"

\* C33: charge_interval returns, for every id and every token, the outcome of
\* the first check that applies in the order NotFound, NotActive, token match
\* (success without mutation), Replay, IntervalNotElapsed, InsufficientBalance;
\* every outcome before InsufficientBalance leaves the store, the status
\* included, as it was.
C33_CheckOrder ==
    \A id \in SubIds : \A key \in OptKeys :
        LET r == charge_one(Store, now, id, key) IN
        /\ r.res = FirstApplicable(id, key)
        /\ r.res \in {"NotFound", "NotActive", "Replay", "IntervalNotElapsed"}
              => r.st = Store
        /\ (id \in Ids /\ subs[id].status = "Active" /\ key # None /\ idem[id] = key)
              => r.st = Store

(* ------------------------------- C34 --------------------------------- *)

\* C34 as stated: a successful interval debit leaves, as the replay state of
\* that subscription, the billing period now / interval_seconds and exactly
\* the token supplied with the call: no token if none was supplied.
C34_TokenOfLastDebit ==
    \A id \in Ids : \A key \in OptKeys :
        LET r == charge_one(Store, now, id, key) IN
        Debited(r, Store) =>
            /\ r.st.cp[id] = Some(Period(now, subs[id].interval_seconds))
            /\ r.st.idem[id] = key

\* C34 as amended: a successful interval debit stores the billing period
\* now / interval_seconds and, if a token was supplied, that token; without a
\* token (as in batch_charge) the token stored before stays.  The replay state
\* of no other subscription changes, and a charge_interval call that applies
\* no debit, a usage charge and a batch entry that fails change no replay
\* state at all; batch_charge never changes a token.
C34_TokenKeptWithoutKey ==
    /\ \A id \in Ids :
        /\ \A key \in OptKeys :
              LET r == charge_one(Store, now, id, key) IN
              IF Debited(r, Store)
              THEN /\ r.st.cp = [cp EXCEPT ![id] = Some(Period(now, subs[id].interval_seconds))]
                   /\ r.st.idem = [idem EXCEPT ![id] = IF key # None THEN key ELSE @]
              ELSE r.st.cp = cp /\ r.st.idem = idem
        /\ \A u \in UsageAmounts :
              LET r == charge_usage_one(Store, id, u) IN
              r.st.cp = cp /\ r.st.idem = idem
    /\ admin # None =>
          \A ids \in BatchInputs(SubIds) :
              do_batch_charge(Store, admin, admin[1], now, ids).st.idem = idem

\* A subscription debited with token k1 in an earlier period is due again: a
\* debit without token stores the new period and leaves k1 in place, a debit
\* with k2 replaces it.
C34_Witness ==
    \E id \in Ids :
        /\ idem[id] = Some("k1") /\ cp[id] # None
        /\ LET r == charge_one(Store, now, id, None) IN
            /\ Debited(r, Store)
            /\ r.st.cp[id] = Some(Period(now, subs[id].interval_seconds))
            /\ r.st.cp[id] # cp[id]
            /\ r.st.idem[id] = Some("k1")
        /\ LET r == charge_one(Store, now, id, Some("k2")) IN
            Debited(r, Store) /\ r.st.idem[id] = Some("k2")

(* ------------------------------- C35 --------------------------------- *)

\* C35: when the token is not configured or the transfer does not go through,
\* neither deposit_funds nor withdraw_subscriber_funds leaves the
\* subscription's prepaid_balance different from what it was before the call.
C35_NoBookkeepingWithoutTransfer ==
    \A id \in Ids : \A ok \in BOOLEAN :
        (token = None \/ ~ok) =>
            /\ \A amount \in DepositAmounts :
                  do_deposit_funds(subs, min_topup, token, id, amount, ok).subs[id].prepaid_balance
                      = subs[id].prepaid_balance
            /\ \A a \in Addresses :
                  do_withdraw_subscriber_funds(subs, token, id, a, ok).subs[id].prepaid_balance
                      = subs[id].prepaid_balance

(* ------------------------------- C36 --------------------------------- *)

\* The signed integers of the modelled width.
I128 == I128_MIN .. I128_MAX

\* The balances the helpers are tried on: every integer of the width, the
\* balances currently stored among them.
Balances == I128 \cup {subs[id].prepaid_balance : id \in Ids}

\* C36: for all inputs of the integer width, safe_add_balance rejects
\* amount < 0 with Underflow and otherwise returns balance + amount, a value
\* >= 0, or Overflow when the sum is not representable; safe_sub_balance
\* returns balance - amount exactly when amount >= 0 and balance - amount >= 0,
\* and Underflow otherwise.  A successful result is never negative.
C36_BalanceHelpersNonNegative ==
    \A balance \in Balances : \A amount \in I128 :
        LET a == safe_add_balance(balance, amount)
            s == safe_sub_balance(balance, amount) IN
        /\ IF amount < 0 THEN a = MathErr("Underflow")
           ELSE IF balance + amount > I128_MAX THEN a = MathErr("Overflow")
           ELSE a = MathOk(balance + amount) /\ a.value >= 0
        /\ IF amount >= 0 /\ balance - amount >= 0 THEN s = MathOk(balance - amount)
           ELSE s = MathErr("Underflow")

(* ------------------------------- C37 --------------------------------- *)

\* C37: whenever a last-charged period is stored for a subscription, it is
\* last_payment_timestamp / interval_seconds of that subscription (and the
\* interval is not zero); and whenever charge_interval returns Replay, with
\* any token, the interval guard would have rejected the call too:
\* now < last_payment_timestamp + interval_seconds.
C37_PeriodMatchesTimestamp ==
    \A id \in Ids :
        /\ cp[id] # None =>
              /\ subs[id].interval_seconds # 0
              /\ cp[id][1] = Period(subs[id].last_payment_timestamp, subs[id].interval_seconds)
        /\ \A key \in OptKeys :
              charge_one(Store, now, id, key).res = "Replay" =>
                  now < subs[id].last_payment_timestamp + subs[id].interval_seconds

\* A subscription with interval 2 debited at time 3, in period 1, and charged
\* again at that time: the period guard answers Replay, and the next allowed
\* time, 5, has not come either.
C37_Witness ==
    \E id \in Ids :
        /\ subs[id].interval_seconds = 2 /\ subs[id].last_payment_timestamp = 3
        /\ cp[id] = Some(1) /\ now = 3 /\ subs[id].status = "Active"
        /\ charge_one(Store, now, id, None).res = "Replay"
        /\ charge_one(Store, now, id, Some("k2")).res = "Replay"

(* ------------------------------- C38 --------------------------------- *)

\* C38 as stated: whenever charge_interval returns success, the stored
\* last-charged period of that subscription is now / interval_seconds
\* immediately afterwards.
C38_SuccessMeansPaidNow ==
    \A id \in Ids : \A key \in OptKeys :
        LET r == charge_one(Store, now, id, key) IN
        r.res = "Ok" => r.st.cp[id] = Some(Period(now, subs[id].interval_seconds))

\* C38 as amended: a success of charge_interval that does not rest on the
\* stored token applies a debit and leaves now / interval_seconds as the
\* stored period; a success of a call carrying the token stored for the
\* subscription changes nothing, and the stored period is then the period of
\* the last debit applied, the current one or an earlier one.
C38_SuccessPaidOrTokenRepeat ==
    \A id \in Ids : \A key \in OptKeys :
        LET r == charge_one(Store, now, id, key) IN
        r.res = "Ok" =>
            IF key # None /\ idem[id] = key
            THEN /\ r.st = Store
                 /\ cp[id] # None
                 /\ cp[id][1] <= Period(now, subs[id].interval_seconds)
                 /\ debit_log[id] # << >>
            ELSE /\ Debited(r, Store)
                 /\ r.st.cp[id] = Some(Period(now, subs[id].interval_seconds))

\* Token k1 was stored by the debit of period 1; in period 2, with the charge
\* due and funded, a call with k1 succeeds without a debit and the stored
\* period stays 1, while a call without token debits and stores 2.
C38_Witness ==
    \E id \in Ids :
        /\ subs[id].interval_seconds = 2 /\ now = 4
        /\ idem[id] = Some("k1") /\ cp[id] = Some(1)
        /\ charge_one(Store, now, id, Some("k1")) = Outcome("Ok", Store)
        /\ LET r == charge_one(Store, now, id, None) IN
            Debited(r, Store) /\ r.st.cp[id] = Some(2)

(* ------------------------------- C39 --------------------------------- *)

\* The step changes the balance of id by d through a deposit that was accepted.
ByDeposit(id, d) ==
    \E amount \in DepositAmounts :
        LET r == do_deposit_funds(subs, min_topup, token, id, amount, TRUE) IN
        r.res = "Ok" /\ subs' = r.subs /\ d = amount

\* The step applied n > 0 interval debits to id (one call, or a batch).
ByIntervalDebits(id, d) ==
    LET n == Len(debit_log'[id]) - Len(debit_log[id]) IN
    n > 0 /\ d = 0 - subs[id].amount * n

\* The step is a successful usage charge of -d on id.
ByUsage(id, d) ==
    \E u \in UsageAmounts :
        LET r == charge_usage_one(Store, id, u) IN
        r.res = "Ok" /\ subs' = r.st.subs /\ d = 0 - u

\* The step is a successful withdrawal of the whole balance of id.
ByWithdraw(id, d) ==
    \E a \in Addresses :
        LET r == do_withdraw_subscriber_funds(subs, token, id, a, TRUE) IN
        /\ r.res = "Ok" /\ subs' = r.subs
        /\ subs[id].status = "Cancelled" /\ d = 0 - subs[id].prepaid_balance

\* C39: prepaid_balance is the sum of the accepted deposits minus amount per
\* successful interval debit, minus the successful usage charges, minus what
\* was withdrawn after cancellation.  Stepwise: a new record starts at 0, and
\* every step changes a stored balance by exactly the contribution of one of
\* these successful operations or not at all; a failed call and a token
\* replay change no balance.
C39_BalanceLedger ==
    [][/\ \A id \in DOMAIN subs' \ Ids : subs'[id].prepaid_balance = 0
       /\ \A id \in Ids :
            LET d == subs'[id].prepaid_balance - subs[id].prepaid_balance IN
            \/ d = 0 /\ debit_log'[id] = debit_log[id]
            \/ ByDeposit(id, d)
            \/ ByIntervalDebits(id, d)
            \/ ByUsage(id, d)
            \/ ByWithdraw(id, d)]_vars

(* ------------------------------- C40 --------------------------------- *)

\* C40: a stored prepaid_balance grows only by a deposit: every step that
\* leaves a subscription's balance larger than before is an accepted
\* deposit_funds on that subscription, whatever amount the subscription was
\* created with.
C40_OnlyDepositIncreases ==
    [][\A id \in Ids :
          subs'[id].prepaid_balance > subs[id].prepaid_balance =>
              ByDeposit(id, subs'[id].prepaid_balance - subs[id].prepaid_balance)]_vars

====
